---- MODULE Spec2Model ----
(***************************************************************************)
(* A model of the Apple Pixlet decoder, libavcodec/pixlet.c.               *)
(*                                                                         *)
(* Five specifications share the variables below:                          *)
(*   Spec        the decoder instance: pixlet_init, pixlet_decode_frame,   *)
(*               pixlet_init_thread_copy, pixlet_close                     *)
(*   SpecCoeffs  the entropy decoders read_low_coeffs / read_high_coeffs   *)
(*               as decode_plane and read_highpass call them               *)
(*   SpecHdr     the band header: the parameter selection of read_highpass *)
(*               and the nbits / length of read_high_coeffs                *)
(*   SpecPred    lowpass_prediction                                        *)
(*   SpecPost    postprocess_luma / postprocess_chroma                     *)
(***************************************************************************)
EXTENDS Integers, Sequences, FiniteSets, TLC

VARIABLES
    \* ---- PixletContext and the AVCodecContext fields the decoder sets
    ctx_w, ctx_h,          \* ctx->w, ctx->h
    ctx_levels, ctx_depth, \* ctx->levels, ctx->depth
    filter,                \* <<length of filter[0], length of filter[1]>>, NULL when not allocated
    prediction,            \* length of ctx->prediction, NULL when not allocated
    band,                  \* ctx->band[plane][i]
    avctx,                 \* avctx->pix_fmt, color_range, and AV_CODEC_FLAG_GRAY of flags
    \* ---- one call of pixlet_decode_frame
    pc,                    \* "idle", or "decode" while a packet is handed to the decoder
    pkt,                   \* the header of the packet in flight
    ret,                   \* the value the last call returned
    got_frame,             \* *got_frame
    touched,               \* planes of the output frame a sample was written to
    decoded,               \* planes decode_plane completed on
    luma_done,             \* postprocess_luma ran in the last call
    magic,                 \* the last band magic read_highpass read in the call
    realloc,               \* the last call freed and re-allocated the scratch buffers
    \* ---- the entropy decoders (SpecCoeffs)
    ent,
    \* ---- lowpass_prediction (SpecPred)
    lp,
    \* ---- postprocess (SpecPost)
    pp

ctxVars   == <<ctx_w, ctx_h, ctx_levels, ctx_depth, filter, prediction, band, avctx>>
callVars  == <<pc, pkt, ret, got_frame, touched, decoded, luma_done, magic, realloc>>
frameVars == <<ctxVars, callVars>>
vars      == <<frameVars, ent, lp, pp>>

(***************************************************************************)
(* Program constants                                                       *)
(***************************************************************************)
NB_LEVELS == 4
NULL == -1
AVERROR_INVALIDDATA == -1094995529
AVERROR_ENOMEM == -12
AVERROR_EINVAL == -22
\* 0xDEADBEEF as its two big-endian 16-bit halves <<0xDEAD, 0xBEEF>>
DEADBEEF == <<57005, 48879>>
\* 0xDEADBEEE
DEADBEEE == <<57005, 48878>>
NoMagic == <<0, 0>>
INT16_MIN == -32768
INT16_MAX == 32767
INT32_MIN == (-2147483647) - 1
INT32_MAX == 2147483647

(***************************************************************************)
(* Bounds of the model                                                     *)
(***************************************************************************)
\* avpkt->size of the packets handed in
PktBufSize == 4096
\* picture dimensions go up to MaxDimBlocks blocks of 32 samples
MaxDimBlocks == 2

(***************************************************************************)
(* C arithmetic                                                            *)
(***************************************************************************)
Pow2(n) == 2 ^ n
\* x >> n on a signed value: the arithmetic shift, 0 <= n <= 31
Shr(x, n) == IF n > 30 THEN (x \div Pow2(30)) \div Pow2(n - 30) ELSE x \div Pow2(n)
FFMAX(a, b) == IF a > b THEN a ELSE b
FFMIN(a, b) == IF a > b THEN b ELSE a
\* FFALIGN(x, a), a a power of two
FFALIGN(x, a) == ((x + a - 1) \div a) * a
\* conversion to int16_t / uint16_t / int32_t (two's complement wrap)
ToU16(x) == x % 65536
ToI16(x) == ((x + 32768) % 65536) - 32768

Planes == 0 .. 2

(***************************************************************************)
(* init_decoder: the band table                                            *)
(***************************************************************************)
ZeroBand == [width |-> 0, height |-> 0, size |-> 0, x |-> 0, y |-> 0]

BandEntry(old, w, h, levels, i) ==
    IF i = 0
    THEN [old EXCEPT !.width = Shr(w, NB_LEVELS), !.height = Shr(h, NB_LEVELS),
                     !.size = Shr(w, NB_LEVELS) * Shr(h, NB_LEVELS)]
    ELSE LET scale == levels - ((i - 1) \div 3)
         IN [width  |-> Shr(w, scale),
             height |-> Shr(h, scale),
             size   |-> Shr(w, scale) * Shr(h, scale),
             x      |-> Shr(w, scale) * (IF (i % 3) # 2 THEN 1 ELSE 0),
             y      |-> Shr(h, scale) * (IF (i % 3) # 1 THEN 1 ELSE 0)]

BandTable(old, w, h, levels) ==
    [plane \in Planes |->
        LET shift == IF plane > 0 THEN 1 ELSE 0
        IN [i \in 0 .. (NB_LEVELS * 3) |->
               BandEntry(old[plane][i], Shr(w, shift), Shr(h, shift), levels, i)]]

\* init_decoder with ctx->w = w, ctx->h = h; failing: the av_malloc_array calls
\* (0: filter[0], 1: filter[1], 2: prediction) that return NULL
init_decoder(old, w, h, levels, failing) ==
    [filter     |-> << IF 0 \in failing THEN NULL ELSE h,
                       IF 1 \in failing THEN NULL ELSE FFMAX(h, w) + 16 >>,
     prediction |-> IF 2 \in failing THEN NULL ELSE Shr(w, NB_LEVELS),
     band       |-> IF failing # {} THEN old ELSE BandTable(old, w, h, levels),
     ret        |-> IF failing # {} THEN AVERROR_ENOMEM ELSE 0]

\* free_buffers: av_freep sets the three pointers to NULL
FreedFilter == <<NULL, NULL>>
FreedPrediction == NULL

(***************************************************************************)
(* pixlet_decode_frame                                                     *)
(***************************************************************************)
\* the header of a packet: the 32-bit fields pixlet_decode_frame reads
NoPkt == [pktsize |-> 0, version |-> 0, field4 |-> 0, width |-> 0, height |-> 0,
          levels |-> 0, depth |-> 0]

\* the width and height fields: unaligned, aligned, and one past the last block but one
Dims == {1, 32, 32 * (MaxDimBlocks - 1) + 1}

Headers ==
    [pktsize : {44, 45, PktBufSize, PktBufSize + 1},
     version : {1, 2},
     field4  : {1, 2},
     width   : Dims,
     height  : Dims,
     levels  : {NB_LEVELS - 1, NB_LEVELS},
     depth   : {7, 8, 15, 16}]

\* line 569; left is bytestream2_get_bytes_left after the first field. pktsize is
\* unsigned and pktsize - 4 is evaluated only when pktsize > 44, so it never wraps
PktSizeInvalidMut(pktsize, left) == pktsize < 44 \/ pktsize - 4 > left
PktSizeInvalid(pktsize, left) == pktsize <= 44 \/ pktsize - 4 > left

\* line 593
DepthInvalid(depth) == depth < 8 \/ depth > 15

\* line 324
MagicOkMut(m) == TRUE
MagicOk(m) == m = DEADBEEF

\* line 641: the value a successful call returns
SuccessRet(pktsize) == pktsize

\* What the payload of a packet holds, as far as the plane loop can tell: one
\* plane (mark) carries the values below, every other plane decodes cleanly.
\*   low    which read_low_coeffs call of decode_plane fails, or that no byte
\*          is left after the lowpass coefficients, or "ok"
\*   magic  the magic of a band of the plane
\*   high   what read_high_coeffs returns for that band
Payloads ==
    [mark  : Planes,
     low   : {"ok", "top", "left", "rest", "no_bytes"},
     magic : {DEADBEEF, DEADBEEE},
     high  : {0, AVERROR_INVALIDDATA}]

\* lines 313-337, read_highpass: the magic and the coefficients of the bands
read_highpass(plane, f) ==
    IF plane # f.mark
    THEN [ret |-> 0, magic |-> DEADBEEF]
    ELSE IF ~MagicOk(f.magic)
    THEN [ret |-> AVERROR_INVALIDDATA, magic |-> f.magic]
    ELSE [ret |-> f.high, magic |-> f.magic]

\* lines 496-555, decode_plane: its return value and the magic it read last
decode_plane(plane, f) ==
    IF plane = f.mark /\ f.low # "ok"
    THEN [ret |-> AVERROR_INVALIDDATA, magic |-> NoMagic]
    ELSE read_highpass(plane, f)

\* the planes postprocess_luma (w x h) and postprocess_chroma (w/2 x h/2) write
PostprocessTouched(w, h) ==
    (IF w > 0 /\ h > 0 THEN {0} ELSE {})
    \cup (IF Shr(w, 1) > 0 /\ Shr(h, 1) > 0 THEN {1, 2} ELSE {})

\* the state as a record, for the outcomes of a call
Cur ==
    [w |-> ctx_w, h |-> ctx_h, levels |-> ctx_levels, depth |-> ctx_depth,
     filter |-> filter, prediction |-> prediction, band |-> band, avctx |-> avctx,
     ret |-> ret, got_frame |-> got_frame, touched |-> touched, decoded |-> decoded,
     luma_done |-> luma_done, magic |-> magic, realloc |-> realloc]

\* lines 636-641
Finish(s, p) ==
    [s EXCEPT !.touched = @ \cup PostprocessTouched(s.w, s.h),
              !.luma_done = TRUE,
              !.got_frame = 1,
              !.ret = SuccessRet(p.pktsize)]

\* line 632
GrayBreak(gray) == gray

\* lines 628-634: the plane loop from plane i on, then lines 636-641
RECURSIVE PlaneLoop(_, _, _, _)
PlaneLoop(s, p, f, i) ==
    IF i >= 3
    THEN Finish(s, p)
    ELSE LET r  == decode_plane(i, f)
             \* decode_plane stores the DC seed in dst[0] before anything can fail
             s1 == [s EXCEPT !.touched = @ \cup {i},
                             !.magic = IF r.magic # NoMagic THEN r.magic ELSE @]
         IN IF r.ret < 0
            THEN [s1 EXCEPT !.ret = r.ret]
            ELSE LET s2 == [s1 EXCEPT !.decoded = @ \cup {i}]
                 IN IF GrayBreak(s.avctx.gray)
                    THEN Finish(s2, p)
                    ELSE PlaneLoop(s2, p, f, i + 1)

\* lines 618-626
AfterInit(s, p) ==
    { [s EXCEPT !.ret = AVERROR_ENOMEM] }          \* ff_thread_get_buffer fails
    \cup { PlaneLoop(s, p, f, 0) : f \in Payloads }

\* line 604
DimsChangedMut(s, w, h) == s.w # w
DimsChanged(s, w, h) == s.w # w \/ s.h # h

\* lines 604-616, w and h the aligned dimensions
Reinit(s, p, w, h) ==
    IF DimsChanged(s, w, h)
    THEN UNION { LET r  == init_decoder(s.band, w, h, s.levels, failing)
                     s1 == [s EXCEPT !.w = w, !.h = h, !.filter = r.filter,
                                     !.prediction = r.prediction, !.band = r.band,
                                     !.realloc = TRUE]
                 IN IF r.ret < 0
                    THEN { [s1 EXCEPT !.filter = FreedFilter,
                                      !.prediction = FreedPrediction,
                                      !.w = 0, !.h = 0, !.ret = r.ret] }
                    ELSE AfterInit(s1, p)
               : failing \in SUBSET {0, 1, 2} }
    ELSE AfterInit(s, p)

\* the outcomes of pixlet_decode_frame on the packet in flight
DecodeOutcomes ==
    LET p  == pkt
        s0 == [Cur EXCEPT !.realloc = FALSE]
        w  == FFALIGN(p.width,  Pow2(NB_LEVELS + 1))
        h  == FFALIGN(p.height, Pow2(NB_LEVELS + 1))
    IN IF PktSizeInvalid(p.pktsize, PktBufSize - 4)
       THEN { [s0 EXCEPT !.ret = AVERROR_INVALIDDATA] }
       ELSE IF p.field4 # 1
       THEN { [s0 EXCEPT !.ret = AVERROR_INVALIDDATA] }
       ELSE LET s1 == [s0 EXCEPT !.levels = p.levels]
            IN IF p.levels # NB_LEVELS
               THEN { [s1 EXCEPT !.ret = AVERROR_INVALIDDATA] }
               ELSE LET s2 == [s1 EXCEPT !.depth = p.depth]
                    IN IF DepthInvalid(p.depth)
                       THEN { [s2 EXCEPT !.ret = AVERROR_INVALIDDATA] }
                       ELSE { [s2 EXCEPT !.ret = AVERROR_EINVAL] }  \* ff_set_dimensions fails
                            \cup Reinit(s2, p, w, h)

Assign(o) ==
    /\ ctx_w' = o.w /\ ctx_h' = o.h /\ ctx_levels' = o.levels /\ ctx_depth' = o.depth
    /\ filter' = o.filter /\ prediction' = o.prediction /\ band' = o.band
    /\ avctx' = o.avctx
    /\ ret' = o.ret /\ got_frame' = o.got_frame /\ touched' = o.touched
    /\ decoded' = o.decoded /\ luma_done' = o.luma_done /\ magic' = o.magic
    /\ realloc' = o.realloc

\* the caller hands a packet and a fresh frame to the decoder, *got_frame = 0
SendPacket ==
    /\ pc = "idle"
    /\ avctx.pix_fmt = "YUV420P16"
    /\ \E p \in Headers : pkt' = p
    /\ pc' = "decode"
    /\ got_frame' = 0 /\ touched' = {} /\ decoded' = {} /\ luma_done' = FALSE
    /\ magic' = NoMagic /\ realloc' = FALSE /\ ret' = 0
    /\ UNCHANGED <<ctxVars, ent, lp, pp>>

pixlet_decode_frame ==
    /\ pc = "decode"
    /\ \E o \in DecodeOutcomes : Assign(o)
    /\ pc' = "idle"
    /\ pkt' = NoPkt
    /\ UNCHANGED <<ent, lp, pp>>

\* lines 115-120
pixlet_init ==
    /\ pc = "idle"
    /\ avctx' = [avctx EXCEPT !.pix_fmt = "YUV420P16", !.color_range = "JPEG"]
    /\ ret' = 0
    /\ UNCHANGED <<ctx_w, ctx_h, ctx_levels, ctx_depth, filter, prediction, band,
                   pc, pkt, got_frame, touched, decoded, luma_done, magic, realloc,
                   ent, lp, pp>>

\* lines 106-113
pixlet_close ==
    /\ pc = "idle"
    /\ filter' = FreedFilter
    /\ prediction' = FreedPrediction
    /\ ctx_w' = 0 /\ ctx_h' = 0
    /\ ret' = 0
    /\ UNCHANGED <<ctx_levels, ctx_depth, band, avctx,
                   pc, pkt, got_frame, touched, decoded, luma_done, magic, realloc,
                   ent, lp, pp>>

\* lines 645-655: the instance is a copy made for a decoding thread
pixlet_init_thread_copy ==
    /\ pc = "idle"
    /\ filter' = <<NULL, NULL>>
    /\ prediction' = NULL
    /\ ctx_w' = 0 /\ ctx_h' = 0
    /\ ret' = 0
    /\ UNCHANGED <<ctx_levels, ctx_depth, band, avctx,
                   pc, pkt, got_frame, touched, decoded, luma_done, magic, realloc,
                   ent, lp, pp>>

\* the other specifications' variables, at rest
EntIdle == [fn |-> "none"]
LpIdle  == [fn |-> "none"]
PpIdle  == [fn |-> "none"]

\* a fresh instance: priv_data is zeroed, the caller chose avctx->flags
Init ==
    /\ ctx_w = 0 /\ ctx_h = 0 /\ ctx_levels = 0 /\ ctx_depth = 0
    /\ filter = <<NULL, NULL>>
    /\ prediction = NULL
    /\ band = [plane \in Planes |-> [i \in 0 .. (NB_LEVELS * 3) |-> ZeroBand]]
    /\ \E g \in BOOLEAN :
          avctx = [pix_fmt |-> "NONE", color_range |-> "UNSPECIFIED", gray |-> g]
    /\ pc = "idle" /\ pkt = NoPkt /\ ret = 0 /\ got_frame = 0
    /\ touched = {} /\ decoded = {} /\ luma_done = FALSE /\ magic = NoMagic
    /\ realloc = FALSE
    /\ ent = EntIdle /\ lp = LpIdle /\ pp = PpIdle

Next ==
    \/ pixlet_init
    \/ SendPacket
    \/ pixlet_decode_frame
    \/ pixlet_init_thread_copy
    \/ pixlet_close

Spec == Init /\ [][Next]_vars

(***************************************************************************)
(* The bit reader, as the entropy decoders use it.  The bits of the payload *)
(* are drawn as they are read; a bit that show_bits has shown and skip_bits *)
(* has not skipped stays pending (pend) and is the first bit of the next    *)
(* read.  NoBit: no bit is pending.                                         *)
(***************************************************************************)
NoBit == 2
\* values drawn for a field go up to MaxPeek, plus the field's largest value
MaxPeek == 3
\* unary counts drawn go up to MaxUnary, plus the limit (the escape)
MaxUnary == 1

\* floor(log2(x)) for x >= 1: ff_clz(x) ^ 0x1F
RECURSIVE Log2(_)
Log2(x) == IF x <= 1 THEN 0 ELSE 1 + Log2(x \div 2)

\* ff_clz of a 32-bit value that is not 0
ff_clz(x) == IF x < 0 THEN 0 ELSE 31 - Log2(x)

\* av_mod_uintp2(a, p) for 0 <= p <= 31
av_mod_uintp2(a, p) == a % Pow2(p)

\* get_unary(b, 0, limit): the counts it can return. It returns 0 when the
\* first bit is 0, and every count from 1 on starts with a 1 bit
get_unary(limit, pend) ==
    { k \in 0 .. limit : /\ (k <= MaxUnary \/ k = limit)
                         /\ (pend = 0 => k = 0)
                         /\ (pend = 1 => k >= 1) }

\* the bits get_unary consumes for count k
UnaryBits(limit, k) == IF k < limit THEN k + 1 ELSE limit

\* show_bits(b, n) / get_bits(b, n), 1 <= n <= 25: the values of an n-bit field
BitField(n) == (0 .. FFMIN(MaxPeek, Pow2(n) - 1)) \cup {Pow2(n) - 1}

\* align_get_bits: the bit position after it, and the bit still pending
AlignPos(bitpos) == ((bitpos + 7) \div 8) * 8
AlignPend(bitpos, pend) == IF bitpos % 8 = 0 THEN pend ELSE NoBit

(***************************************************************************)
(* read_low_coeffs, lines 122-194, and read_high_coeffs, lines 196-305.     *)
(* ent holds the locals of the running call (i, j, state, flag, ...), the   *)
(* bit reader, and the samples written so far:                              *)
(*   off    what the call has added to dst (a multiple of stride)           *)
(*   out    the values written by the call, in order                        *)
(*   cells  the offsets from the plane's first sample written so far        *)
(*   zeros  every bit read from the payload so far was 0                    *)
(*   ub     a read of undefined width or count has happened                 *)
(*   rstate the state the run phase was last entered with (0 before)        *)
(***************************************************************************)
\* dst[j++] = v, with the row wrap of lines 150-153
Emit(e, v) ==
    LET wrap == (e.j + 1 = e.width)
    IN [e EXCEPT !.out   = Append(@, ToI16(v)),
                 !.cells = @ \cup {e.base + e.off + e.j},
                 !.emitted = @ + 1,
                 !.j     = IF wrap THEN 0 ELSE e.j + 1,
                 !.off   = IF wrap THEN @ + e.stride ELSE @]

\* lines 180-186 / 291-297: k zero samples
RECURSIVE EmitZeros(_, _)
EmitZeros(e, k) == IF k = 0 THEN e ELSE EmitZeros(Emit(e, 0), k - 1)

\* line 131
LowValueBits(state) == FFMIN(Log2(Shr(state, 8) + 3), 14)

\* lines 160 / 266: the width of the run prefix, state in [0, 63]
RunPrefixBits(state) ==
    Shr(state + 8, 5) + (IF state # 0 THEN ff_clz(state) ELSE 32) - 24

\* line 176: the run does not fit
LowRunTooLongMut(i, rlen, size) == i + rlen > size + 1
LowRunTooLong(i, rlen, size) == i + rlen > size

\* lines 133-145: the reads of the value phase, what they yield as escape
LowValueReads(nbits, pend) ==
    UNION { IF cnt1 < 8
            THEN { IF v <= 1
                   THEN [escape |-> (Pow2(nbits) - 1) * cnt1,
                         bits |-> UnaryBits(8, cnt1) + nbits - 1,
                         pend |-> v, zero |-> cnt1 = 0 /\ v = 0]
                   ELSE [escape |-> v + (Pow2(nbits) - 1) * cnt1 - 1,
                         bits |-> UnaryBits(8, cnt1) + nbits,
                         pend |-> NoBit, zero |-> FALSE]
                   : v \in BitField(nbits) }
            ELSE { [escape |-> g, bits |-> 8 + 16, pend |-> NoBit, zero |-> FALSE]
                   : g \in BitField(16) }
          : cnt1 \in get_unary(8, pend) }

\* lines 161-174: the reads of the run phase, what they yield as rlen
LowRunReads(nbits, pend) ==
    LET escape == av_mod_uintp2(16383, nbits)
    IN UNION { IF cnt1 > 7
               THEN { [rlen |-> g, bits |-> 8 + 16, pend |-> NoBit, zero |-> FALSE]
                      : g \in BitField(16) }
               ELSE { IF v > 1
                      THEN [rlen |-> v + escape * cnt1 - 1,
                            bits |-> UnaryBits(8, cnt1) + nbits,
                            pend |-> NoBit, zero |-> FALSE]
                      ELSE [rlen |-> escape * cnt1,
                            bits |-> UnaryBits(8, cnt1) + nbits - 1,
                            pend |-> v, zero |-> cnt1 = 0 /\ v = 0]
                      : v \in BitField(nbits) }
             : cnt1 \in get_unary(8, pend) }

\* lines 160-189: the run phase of an iteration, from the state e after the
\* value phase
LowRun(e) ==
    { IF LowRunTooLong(e.i, r.rlen, e.size)
      THEN [e EXCEPT !.pc = "error", !.ret = AVERROR_INVALIDDATA,
                     !.rstate = e.state,
                     !.bitpos = @ + r.bits, !.pend = r.pend,
                     !.zeros = @ /\ r.zero]
      ELSE [EmitZeros(e, r.rlen) EXCEPT
                     !.i = @ + r.rlen,
                     !.state = 0,
                     !.rstate = e.state,
                     !.flag = IF r.rlen < 65535 THEN 1 ELSE 0,
                     !.bitpos = @ + r.bits, !.pend = r.pend,
                     !.zeros = @ /\ r.zero]
      : r \in LowRunReads(RunPrefixBits(e.state), e.pend) }

\* lines 130-190: one iteration of the loop of read_low_coeffs
LowIterOutcomes(e) ==
    UNION { LET s  == r.escape + e.flag
                \* lines 147-148
                sg == IF s % 2 = 1 THEN -1 ELSE 1
                e1 == [Emit(e, sg * Shr(s + 1, 1)) EXCEPT
                          !.i = @ + 1,
                          !.state = 120 * s + e.state - Shr(120 * e.state, 8),
                          !.flag = 0,
                          !.bitpos = @ + r.bits, !.pend = r.pend,
                          !.zeros = @ /\ r.zero]
            IN IF e1.state * 4 > 255 \/ e1.i >= e1.size
               THEN {e1}
               ELSE LowRun(e1)
          : r \in LowValueReads(LowValueBits(e.state), e.pend) }

\* the locals of a call of read_low_coeffs / read_high_coeffs at its start
CallStart(e, base, size, width, stride) ==
    [e EXCEPT !.base = base, !.size = size, !.width = width, !.stride = stride,
              !.i = 0, !.j = 0, !.off = 0, !.state = 3, !.flag = 0, !.out = <<>>]

\* lines 518, 524, 530: the three calls of decode_plane, for the lowpass band
\* of dcw x dch samples with the row stride lstride
LowCall(e, pass) ==
    IF pass = 1
    THEN CallStart(e, 1, e.dcw - 1, e.dcw - 1, 0)
    ELSE IF pass = 2
    THEN CallStart(e, e.lstride, e.dch - 1, 1, e.lstride)
    ELSE CallStart(e, e.lstride + 1, (e.dcw - 1) * (e.dch - 1), e.dcw - 1, e.lstride)

\* the lowpass geometries: band[plane][0] of planes 0 and 1 for pictures of up
\* to MaxDimBlocks x MaxDimBlocks blocks, lowpass bands of up to MaxDCSamples
MaxDCSamples == 8
LowGeometries ==
    { g \in [dcw : 1 .. (2 * MaxDimBlocks), dch : 1 .. (2 * MaxDimBlocks),
             lstride : {16 * k : k \in 1 .. (2 * MaxDimBlocks)}] :
        /\ g.dcw * g.dch <= MaxDCSamples
        /\ \E wb, hb \in 1 .. MaxDimBlocks, shift \in {0, 1} :
              /\ g.dcw = Shr(Shr(32 * wb, shift), NB_LEVELS)
              /\ g.dch = Shr(Shr(32 * hb, shift), NB_LEVELS)
              /\ g.lstride = Shr(32 * wb, shift) }

\* decode_plane up to line 518: the DC seed is stored in dst[0] (line 512), the
\* bit reader starts (line 514) and the first call begins
InitLow ==
    \E g \in LowGeometries :
        ent = LowCall([fn |-> "low", pc |-> "loop", pass |-> 1,
                       dcw |-> g.dcw, dch |-> g.dch, lstride |-> g.lstride,
                       base |-> 0, size |-> 0, width |-> 0, stride |-> 0,
                       i |-> 0, j |-> 0, off |-> 0, state |-> 3, rstate |-> 0, flag |-> 0,
                       out |-> <<>>, cells |-> {0}, emitted |-> 1,
                       bitpos |-> 0, pend |-> NoBit, zeros |-> TRUE,
                       ret |-> 0], 1)

\* one iteration of the loop of read_low_coeffs
LowIter ==
    /\ ent.fn = "low" /\ ent.pc = "loop"
    /\ ent.i < ent.size
    /\ \E e \in LowIterOutcomes(ent) : ent' = e
    /\ UNCHANGED <<frameVars, lp, pp>>

\* lines 192-193: read_low_coeffs returns, and decode_plane makes its next call
LowReturn ==
    /\ ent.fn = "low" /\ ent.pc = "loop"
    /\ ent.i >= ent.size
    /\ LET e1 == [ent EXCEPT !.bitpos = AlignPos(ent.bitpos),
                             !.pend = AlignPend(ent.bitpos, ent.pend),
                             !.ret = Shr(AlignPos(ent.bitpos), 3)]
       IN ent' = IF ent.pass < 3
                 THEN [LowCall(e1, ent.pass + 1) EXCEPT !.pass = ent.pass + 1]
                 ELSE [e1 EXCEPT !.pc = "done"]
    /\ UNCHANGED <<frameVars, lp, pp>>

(***************************************************************************)
(* read_highpass, lines 307-340, one band, and read_high_coeffs             *)
(***************************************************************************)
\* FFABS(a) of line 330. -a overflows for INT32_MIN: the builds that wrap give
\* INT32_MIN, which every b is >= to; the builds that widen give 2^31, which no
\* b is >= to. The result is the set of parameters read_high_coeffs can get.
HighSelect(a, b) ==
    IF a = INT32_MIN
    THEN {b, a}
    ELSE { IF b >= (IF a >= 0 THEN a ELSE -a) THEN b ELSE a }

\* x ^ y on two's complement ints, bit by bit
RECURSIVE BitXor(_, _)
BitXor(x, y) ==
    IF x \in {0, -1} /\ y \in {0, -1}
    THEN (IF x = y THEN 0 ELSE -1)
    ELSE 2 * BitXor(x \div 2, y \div 2) + (((x % 2) + (y % 2)) % 2)

\* (a >= 0) + (a ^ (a >> 31)) - (a >> 31) of lines 209-210, for a in
\* (INT32_MIN, INT32_MAX), where no step of it overflows
AbsExpr(a) == (IF a >= 0 THEN 1 ELSE 0) + BitXor(a, Shr(a, 31)) - Shr(a, 31)

\* lines 209-215: nbits. For INT32_MAX and INT32_MIN the expression overflows
\* to 2^31; wrapped or widened, the argument of ff_clz is 0x7FFFFFFF
HighNbitsMut(a) ==
    IF a = INT32_MAX \/ a = INT32_MIN
    THEN 33 - ff_clz(INT32_MAX)
    ELSE IF (IF a >= 0 THEN a ELSE -a) # 1
         THEN 33 - ff_clz((IF a >= 0 THEN a ELSE -a) - 1)
         ELSE 1
HighNbits(a) ==
    IF a = INT32_MAX \/ a = INT32_MIN
    THEN 33 - ff_clz(INT32_MAX)
    ELSE IF AbsExpr(a) # 1
         THEN 33 - ff_clz(AbsExpr(a) - 1)
         ELSE 1

\* line 211
NbitsInvalid(nbits) == nbits > 16

\* lines 220-224
HighValueBits(state) ==
    IF Shr(state, 8) # -3 THEN 31 - ff_clz(Shr(state, 8) + 3) ELSE -1

\* line 231: 14 + ((((uint64_t)(value - 14)) >> 32) & (value - 14)), as an int
HighPfx(value) == IF value - 14 >= 0 THEN 14 ELSE value

\* what a read with an undefined width or count can yield
Undefined == (0 .. MaxPeek) \cup {65535}

\* lines 226-240: the reads of the value phase, what they yield as cnt1.
\* show_bits and the shift are undefined for pfx < 1
HighValueReads(value, nbits, length, pend) ==
    UNION { IF cnt1 >= length
            THEN { [cnt1 |-> g, bits |-> UnaryBits(length, cnt1) + nbits,
                    pend |-> NoBit, zero |-> FALSE, ub |-> FALSE] : g \in BitField(nbits) }
            ELSE LET pfx == HighPfx(value)
                 IN IF pfx < 1
                    THEN { [cnt1 |-> u, bits |-> UnaryBits(length, cnt1),
                            pend |-> NoBit, zero |-> cnt1 = 0, ub |-> TRUE] : u \in Undefined }
                    ELSE { IF shbits <= 1
                           THEN [cnt1 |-> cnt1 * (Pow2(pfx) - 1),
                                 bits |-> UnaryBits(length, cnt1) + pfx - 1,
                                 pend |-> shbits, zero |-> cnt1 = 0 /\ shbits = 0, ub |-> FALSE]
                           ELSE [cnt1 |-> cnt1 * (Pow2(pfx) - 1) + shbits - 1,
                                 bits |-> UnaryBits(length, cnt1) + pfx,
                                 pend |-> NoBit, zero |-> FALSE, ub |-> FALSE]
                           : shbits \in BitField(pfx) }
          : cnt1 \in get_unary(length, pend) }

\* lines 266-285: the reads of the run phase, what they yield as rlen (an
\* unsigned; 65536 stands for every value above 0xFFFF). For a state below 0
\* pfx is below 0, and av_mod_uintp2 and show_bits are undefined
HighRunReads(state, pend) ==
    IF state < 0
    THEN { [rlen |-> u, bits |-> UnaryBits(8, cnt1), pend |-> NoBit,
             zero |-> cnt1 = 0, ub |-> TRUE]
           : u \in Undefined \cup {65536}, cnt1 \in get_unary(8, pend) }
    ELSE LET pfx    == RunPrefixBits(state)
             escape == av_mod_uintp2(16383, pfx)
         IN UNION { IF cnt1 < 8
                    THEN { IF v > 1
                           THEN [rlen |-> v + escape * cnt1 - 1,
                                 bits |-> UnaryBits(8, cnt1) + pfx,
                                 pend |-> NoBit, zero |-> FALSE, ub |-> FALSE]
                           ELSE [rlen |-> escape * cnt1,
                                 bits |-> UnaryBits(8, cnt1) + pfx - 1,
                                 pend |-> v, zero |-> cnt1 = 0 /\ v = 0, ub |-> FALSE]
                           : v \in BitField(pfx) }
                    ELSE { [rlen |-> g + 8 * escape, bits |-> 8 + 1 + 16,
                            pend |-> NoBit, zero |-> FALSE, ub |-> FALSE] : g \in BitField(16) }
                         \cup
                         { [rlen |-> g + 8 * escape, bits |-> 8 + 1 + 8,
                            pend |-> NoBit, zero |-> FALSE, ub |-> FALSE] : g \in BitField(8) }
                  : cnt1 \in get_unary(8, pend) }

\* line 287
HighRunTooLong(i, rlen, size) == rlen > 65535 \/ i + rlen > size

\* lines 266-300: the run phase of an iteration
HighRun(e) ==
    { IF HighRunTooLong(e.i, r.rlen, e.size)
      THEN [e EXCEPT !.pc = "error", !.ret = AVERROR_INVALIDDATA,
                     !.rstate = e.state,
                     !.bitpos = @ + r.bits, !.pend = r.pend,
                     !.zeros = @ /\ r.zero, !.ub = @ \/ r.ub]
      ELSE [EmitZeros(e, r.rlen) EXCEPT
                     !.i = @ + r.rlen,
                     !.state = 0,
                     !.rstate = e.state,
                     !.flag = IF r.rlen < 65535 THEN 1 ELSE 0,
                     !.bitpos = @ + r.bits, !.pend = r.pend,
                     !.zeros = @ /\ r.zero, !.ub = @ \/ r.ub]
      : r \in HighRunReads(e.state, e.pend) }

\* lines 242-251: the sample for yflag = flag + cnt1
HighSampleMut(c, yflag) ==
    IF yflag = 0 THEN 0 ELSE c * Shr(yflag + 1, 1) + Shr(c, 1)
HighSample(c, yflag) ==
    IF yflag = 0
    THEN 0
    ELSE LET tmp == c * Shr(yflag + 1, 1) + Shr(c, 1)
         IN IF yflag % 2 = 1 THEN -tmp ELSE tmp

\* lines 219-301: one iteration of the loop of read_high_coeffs
HighIterOutcomes(e) ==
    UNION { LET yflag == e.flag + r.cnt1
                e1 == [Emit(e, HighSample(e.c, yflag)) EXCEPT
                          !.i = @ + 1,
                          !.state = e.state + e.d * yflag - Shr(e.d * e.state, 8),
                          !.flag = 0,
                          !.bitpos = @ + r.bits, !.pend = r.pend,
                          !.zeros = @ /\ r.zero, !.ub = @ \/ r.ub]
            IN IF e1.state * 4 > 255 \/ e1.i >= e1.size
               THEN {e1}
               ELSE HighRun(e1)
          : r \in HighValueReads(HighValueBits(e.state), e.nbits, e.length, e.pend) }

\* the bands of the model: band[plane][i], i >= 1, of up to MaxBandSamples
\* samples, for pictures of 32 x 32; stride is linesize / 2 of the plane
MaxBandSamples == 4
HighGeometries ==
    LET tab == BandTable([plane \in Planes |-> [i \in 0 .. 12 |-> ZeroBand]],
                         32, 32, NB_LEVELS)
    IN UNION { { [size |-> tab[p][i].size, width |-> tab[p][i].width,
                  base |-> tab[p][i].x + Shr(32, IF p > 0 THEN 1 ELSE 0) * tab[p][i].y,
                  stride |-> Shr(32, IF p > 0 THEN 1 ELSE 0)]
                 : i \in { k \in 1 .. 12 : tab[p][k].size <= MaxBandSamples } }
               : p \in {0, 1} }

\* the band headers of the model: a, b, c, d and the magic
BandHeaders ==
    [a : {0, 32768}, b : {0, 1}, c : {0, 3}, d : {1, 120, 512},
     magic : {DEADBEEF, DEADBEEE}]

\* read_highpass has read the header of a band (lines 314-323)
InitHigh ==
    \E g \in HighGeometries, h \in BandHeaders :
        ent = [fn |-> "high", pc |-> "header", hdr |-> h,
               c |-> 0, a |-> 0, d |-> 0, nbits |-> 0, length |-> 0,
               base |-> g.base, size |-> g.size, width |-> g.width,
               stride |-> g.stride,
               i |-> 0, j |-> 0, off |-> 0, state |-> 3, rstate |-> 0, flag |-> 0,
               out |-> <<>>, cells |-> {}, emitted |-> 0,
               bitpos |-> 0, pend |-> NoBit, zeros |-> TRUE, ub |-> FALSE,
               ret |-> 0]

\* lines 324-331 and 206-217: the magic is checked, read_high_coeffs is called
\* with c, the selected a and d, and derives nbits and length
HighStart ==
    /\ ent.fn = "high" /\ ent.pc = "header"
    /\ IF ~MagicOk(ent.hdr.magic)
       THEN ent' = [ent EXCEPT !.pc = "error", !.ret = AVERROR_INVALIDDATA]
       ELSE \E a \in HighSelect(ent.hdr.a, ent.hdr.b) :
              LET nbits == HighNbits(a)
                  e1    == [ent EXCEPT !.c = ent.hdr.c, !.a = a, !.d = ent.hdr.d,
                                       !.nbits = nbits]
              IN ent' = IF NbitsInvalid(nbits)
                        THEN [e1 EXCEPT !.pc = "error", !.ret = AVERROR_INVALIDDATA]
                        ELSE [e1 EXCEPT !.pc = "loop", !.length = 25 - nbits]
    /\ UNCHANGED <<frameVars, lp, pp>>

\* one iteration of the loop of read_high_coeffs
HighIter ==
    /\ ent.fn = "high" /\ ent.pc = "loop"
    /\ ent.i < ent.size
    /\ \E e \in HighIterOutcomes(ent) : ent' = e
    /\ UNCHANGED <<frameVars, lp, pp>>

\* lines 303-304
HighReturn ==
    /\ ent.fn = "high" /\ ent.pc = "loop"
    /\ ent.i >= ent.size
    /\ ent' = [ent EXCEPT !.bitpos = AlignPos(ent.bitpos),
                          !.pend = AlignPend(ent.bitpos, ent.pend),
                          !.ret = Shr(AlignPos(ent.bitpos), 3),
                          !.pc = "done"]
    /\ UNCHANGED <<frameVars, lp, pp>>

FrameIdle ==
    /\ ctx_w = 0 /\ ctx_h = 0 /\ ctx_levels = 0 /\ ctx_depth = 0
    /\ filter = <<NULL, NULL>>
    /\ prediction = NULL
    /\ band = [plane \in Planes |-> [i \in 0 .. (NB_LEVELS * 3) |-> ZeroBand]]
    /\ avctx = [pix_fmt |-> "NONE", color_range |-> "UNSPECIFIED", gray |-> FALSE]
    /\ pc = "idle" /\ pkt = NoPkt /\ ret = 0 /\ got_frame = 0
    /\ touched = {} /\ decoded = {} /\ luma_done = FALSE /\ magic = NoMagic
    /\ realloc = FALSE

InitCoeffs ==
    /\ FrameIdle
    /\ lp = LpIdle /\ pp = PpIdle
    /\ (InitLow \/ InitHigh)

NextCoeffs ==
    \/ LowIter
    \/ LowReturn
    \/ HighStart
    \/ HighIter
    \/ HighReturn

SpecCoeffs == InitCoeffs /\ [][NextCoeffs]_vars

(***************************************************************************)
(* The band header alone: every header of HdrValues x HdrValues goes        *)
(* through lines 324-331 and 206-217                                        *)
(***************************************************************************)
HdrValues ==
    {INT32_MIN, -32769, -32768, -2, -1, 0, 1, 2, 32767, 32768, INT32_MAX}

InitHdr ==
    /\ FrameIdle
    /\ lp = LpIdle /\ pp = PpIdle
    /\ \E a \in HdrValues, b \in HdrValues, m \in {DEADBEEF, DEADBEEE} :
          ent = [fn |-> "high", pc |-> "header",
                 hdr |-> [a |-> a, b |-> b, c |-> 3, d |-> 120, magic |-> m],
                 c |-> 0, a |-> 0, d |-> 0, nbits |-> 0, length |-> 0,
                 base |-> 1, size |-> 1, width |-> 1, stride |-> 16,
                 i |-> 0, j |-> 0, off |-> 0, state |-> 3, rstate |-> 0, flag |-> 0,
                 out |-> <<>>, cells |-> {}, emitted |-> 0,
                 bitpos |-> 0, pend |-> NoBit, zeros |-> TRUE, ub |-> FALSE,
                 ret |-> 0]

SpecHdr == InitHdr /\ [][HighStart]_vars

(***************************************************************************)
(* lowpass_prediction, lines 342-362. lp holds the arguments, the row i,    *)
(* the plane dst (cell k is dst[k] of the call), the buffer pred, and r,    *)
(* the plane as it was at the call                                          *)
(***************************************************************************)
\* line 347: memset(pred, 0, width * sizeof(*pred))
PredMemsetMut(pred, width) == pred
PredMemset(pred, width) ==
    [j \in DOMAIN pred |-> IF j < width THEN 0 ELSE pred[j]]

\* lines 350-359: the columns j .. width - 1 of the row at base; val is an
\* int16_t, and so are the cells
RECURSIVE PredictCols(_, _, _, _, _)
PredictCols(d, p, base, j, width) ==
    IF j >= width
    THEN [dst |-> d, pred |-> p]
    ELSE LET val == ToI16(p[j] + d[base + j])
         IN PredictCols(
                [d EXCEPT ![base + j] =
                    IF j = 0 THEN val ELSE ToI16(val + d[base + j - 1])],
                [p EXCEPT ![j] = val],
                base, j + 1, width)

\* the residual values of the model
PredSamples == {INT16_MIN, 1, INT16_MAX}
\* what the cells outside the band, and pred before the call, hold
Stale == 7
MaxPredW == 3
MaxPredH == 2

InitPred ==
    /\ FrameIdle
    /\ ent = EntIdle /\ pp = PpIdle
    /\ \E width \in 1 .. MaxPredW, height \in 1 .. MaxPredH :
          \E res \in [0 .. (height * width - 1) -> PredSamples] :
            LET stride == width + 1
                r == [k \in 0 .. (height * stride - 1) |->
                        IF k % stride = width
                        THEN Stale
                        ELSE res[(k \div stride) * width + (k % stride)]]
            IN lp = [fn |-> "pred", pc |-> "start",
                     width |-> width, height |-> height, stride |-> stride,
                     i |-> 0, r |-> r, dst |-> r,
                     pred |-> [j \in 0 .. (width - 1) |-> Stale]]

\* line 347
PredStart ==
    /\ lp.fn = "pred" /\ lp.pc = "start"
    /\ lp' = [lp EXCEPT !.pred = PredMemset(lp.pred, lp.width), !.pc = "rows"]
    /\ UNCHANGED <<frameVars, ent, pp>>

\* lines 349-361: one row of the outer loop
PredRow ==
    /\ lp.fn = "pred" /\ lp.pc = "rows"
    /\ lp.i < lp.height
    /\ LET o == PredictCols(lp.dst, lp.pred, lp.i * lp.stride, 0, lp.width)
       IN lp' = [lp EXCEPT !.dst = o.dst, !.pred = o.pred, !.i = @ + 1,
                           !.pc = IF lp.i + 1 < lp.height THEN "rows" ELSE "done"]
    /\ UNCHANGED <<frameVars, ent, pp>>

NextPred ==
    \/ PredStart
    \/ PredRow

SpecPred == InitPred /\ [][NextPred]_vars

(***************************************************************************)
(* postprocess_luma, lines 455-470, and postprocess_chroma, lines 472-494,  *)
(* as pixlet_decode_frame calls them (lines 636-637). pp holds ctx->depth,  *)
(* one sample y of plane 0, two samples u of plane 1 and one sample v of    *)
(* plane 2, and what the calls store in their place                         *)
(***************************************************************************)
\* floor(a * b / c) with its remainder, 0 <= a, 0 <= b, 0 < c < 2^30, bit by
\* bit of b
RECURSIVE MulDiv(_, _, _)
MulDivStep(h, a, bit, c) ==
    LET q2 == 2 * h.q + ((2 * h.r) \div c)
        r2 == (2 * h.r) % c
    IN IF bit = 0
       THEN [q |-> q2, r |-> r2]
       ELSE [q |-> q2 + (a \div c) + ((r2 + (a % c)) \div c),
             r |-> (r2 + (a % c)) % c]
MulDiv(a, b, c) ==
    IF b = 0
    THEN [q |-> 0, r |-> 0]
    ELSE MulDivStep(MulDiv(a, b \div 2, c), a, b % 2, c)

\* line 465: SQR(FFMAX(srcy[i], 0) * factor) * 65535 with factor =
\* 1. / ((1 << depth) - 1), in exact arithmetic: its integer part and what is
\* left of it
LumaValue(s, depth) ==
    MulDiv(FFMAX(s, 0) * FFMAX(s, 0), 65535,
           (Pow2(depth) - 1) * (Pow2(depth) - 1))

\* line 465: the uint16_t the float converts to. The float is the exact value
\* within rounding, so an exact whole number can come out one less; the
\* conversion of a float above 65535 is undefined: the builds that convert
\* through a wider integer keep its low 16 bits, the ones that saturate give
\* 65535
LumaStored(s, depth) ==
    LET v == LumaValue(s, depth)
    IN IF v.q > 65535
       THEN {v.q % 65536, 65535}
       ELSE IF v.r = 0 /\ v.q > 0 THEN {v.q - 1, v.q} ELSE {v.q}

\* lines 486-487: (add + src[i]) << shift, stored as uint16_t
ChromaValue(s, depth) ==
    ToU16((Pow2(depth - 1) + s) * Pow2(16 - depth))

\* the samples of the model: the int16_t range, and the ends of the ranges of
\* depth 8
PostSamples == {INT16_MIN, -129, -128, -1, 0, 127, 128, 255, 256, INT16_MAX}

InitPost ==
    /\ FrameIdle
    /\ ent = EntIdle /\ lp = LpIdle
    /\ \E depth \in 8 .. 15, y \in PostSamples, u1 \in PostSamples,
          u2 \in PostSamples, v \in {-1, 0} :
          pp = [fn |-> "post", pc |-> "luma", depth |-> depth,
                srcy |-> y, srcu |-> <<u1, u2>>, srcv |-> v,
                luma |-> 0, dsty |-> 0, dstu |-> <<0, 0>>, dstv |-> 0]

\* line 636
postprocess_luma ==
    /\ pp.fn = "post" /\ pp.pc = "luma"
    /\ \E o \in LumaStored(pp.srcy, pp.depth) :
          pp' = [pp EXCEPT !.luma = LumaValue(pp.srcy, pp.depth).q,
                           !.dsty = o, !.pc = "chroma"]
    /\ UNCHANGED <<frameVars, ent, lp>>

\* line 637
postprocess_chroma ==
    /\ pp.fn = "post" /\ pp.pc = "chroma"
    /\ pp' = [pp EXCEPT !.dstu = <<ChromaValue(pp.srcu[1], pp.depth),
                                    ChromaValue(pp.srcu[2], pp.depth)>>,
                        !.dstv = ChromaValue(pp.srcv, pp.depth),
                        !.pc = "done"]
    /\ UNCHANGED <<frameVars, ent, lp>>

NextPost ==
    \/ postprocess_luma
    \/ postprocess_chroma

SpecPost == InitPost /\ [][NextPost]_vars

(***************************************************************************)
(* Claims about the decoder instance, checked under Spec                   *)
(***************************************************************************)
\* a step that is one whole call of pixlet_decode_frame on the packet pkt
DecodeStep == pc = "decode" /\ pc' = "idle"

\* C1: every call of pixlet_decode_frame either succeeds, sets got_frame to 1
\* and returns the pktsize of the packet's first field, or returns a negative
\* error and leaves got_frame unset; a band magic other than 0xDEADBEEF is such
\* an error (InvalidData).
C1_DecodeContract ==
    [][ DecodeStep =>
          /\ \/ got_frame' = 1 /\ ret' = pkt.pktsize
             \/ got_frame' = 0 /\ ret' < 0
          /\ (magic' \notin {NoMagic, DEADBEEF}
                => got_frame' = 0 /\ ret' = AVERROR_INVALIDDATA) ]_vars

\* a call returned the declared packet size 45 and set got_frame
C1_Witness == pc = "idle" /\ got_frame = 1 /\ ret = 45 /\ magic = DEADBEEF

\* the header conditions C2 lists
C2_Rejected(p) ==
    \/ p.pktsize <= 44
    \/ p.pktsize > PktBufSize
    \/ p.field4 # 1
    \/ p.levels # 4
    \/ p.depth < 8
    \/ p.depth > 15

\* C2: a packet whose header has pktsize <= 44, pktsize beyond the buffer, a
\* fourth field other than 1, levels other than 4 or depth outside [8,15] is
\* rejected with InvalidData before the cached dimensions, the scratch buffers
\* or the band table change and before any plane is decoded or written; a
\* version other than 1 alone does not reject: when such a call returns
\* InvalidData it does so from inside the plane loop, after plane 0 was written.
C2_HeaderRejection ==
    /\ [][ DecodeStep /\ C2_Rejected(pkt) =>
             /\ ret' = AVERROR_INVALIDDATA
             /\ got_frame' = 0
             /\ UNCHANGED <<ctx_w, ctx_h, filter, prediction, band>>
             /\ decoded' = {} /\ touched' = {} ]_vars
    /\ [][ DecodeStep /\ ~C2_Rejected(pkt) /\ pkt.version # 1
             /\ ret' = AVERROR_INVALIDDATA => 0 \in touched' ]_vars

\* a depth-16 packet was rejected while 64x32 buffers were cached, and they stay
C2_Witness ==
    /\ pc = "idle" /\ ret = AVERROR_INVALIDDATA /\ touched = {}
    /\ ctx_depth = 16 /\ ctx_w = 64 /\ ctx_h = 32 /\ filter = <<32, 80>>

\* C4 as claimed: with AV_CODEC_FLAG_GRAY a successful call decodes plane 0
\* only, runs the luma postprocess and writes no sample of planes 1 and 2.
C4_GrayLeavesChroma ==
    (pc = "idle" /\ avctx.gray /\ got_frame = 1)
        => decoded = {0} /\ luma_done /\ touched \cap {1, 2} = {}

\* the band table of the specification's data model for aligned dimensions w x h
C5_BandMatches(w, h) ==
    \A p \in Planes :
        LET wp == IF p > 0 THEN w \div 2 ELSE w
            hp == IF p > 0 THEN h \div 2 ELSE h
        IN /\ band[p][0] = [width |-> wp \div 16, height |-> hp \div 16,
                            size |-> (wp \div 16) * (hp \div 16), x |-> 0, y |-> 0]
           /\ \A i \in 1 .. 12 :
                 LET scale == 4 - ((i - 1) \div 3)
                     bw    == wp \div (2 ^ scale)
                     bh    == hp \div (2 ^ scale)
                 IN band[p][i] = [width |-> bw, height |-> bh, size |-> bw * bh,
                                  x |-> IF i % 3 # 2 THEN bw ELSE 0,
                                  y |-> IF i % 3 # 1 THEN bh ELSE 0]

C5_ScratchConsistent ==
    \/ /\ ctx_w = 0 /\ ctx_h = 0
       /\ filter = <<NULL, NULL>> /\ prediction = NULL
    \/ /\ ctx_w > 0 /\ ctx_h > 0
       /\ filter = <<ctx_h, (IF ctx_h > ctx_w THEN ctx_h ELSE ctx_w) + 16>>
       /\ prediction = ctx_w \div 16
       /\ C5_BandMatches(ctx_w, ctx_h)

\* the aligned dimensions of a packet
C5_Aligned(p) == <<((p.width + 31) \div 32) * 32, ((p.height + 31) \div 32) * 32>>

\* C5: after any sequence of open, decode, thread-copy init and close the
\* scratch state is consistent: either w = h = 0 and no buffer is held, or the
\* three buffers have lengths h, max(h,w)+16 and w>>4 for the cached (w,h) and
\* the band table matches (w,h); a call that returns InvalidData leaves held
\* buffers held; and a call re-allocates exactly when its packet gets past the
\* header checks and ff_set_dimensions with aligned dimensions that differ from
\* the cached ones, leaving buffers, dimensions and band table alone otherwise.
C5_ScratchState ==
    /\ []C5_ScratchConsistent
    /\ [][ DecodeStep /\ ret' = AVERROR_INVALIDDATA /\ prediction # NULL
             => prediction' # NULL /\ filter'[1] # NULL /\ filter'[2] # NULL ]_vars
    /\ [][ DecodeStep =>
             /\ realloc' <=> /\ ~C2_Rejected(pkt)
                              /\ ret' # AVERROR_EINVAL
                              /\ C5_Aligned(pkt) # <<ctx_w, ctx_h>>
             /\ ~realloc' => UNCHANGED <<ctx_w, ctx_h, filter, prediction, band>> ]_vars

\* a frame failed with InvalidData inside the plane loop right after a
\* re-allocation to 64x32, and the new buffers are held
C5_Witness ==
    /\ pc = "idle" /\ ret = AVERROR_INVALIDDATA /\ realloc /\ touched # {}
    /\ ctx_w = 64 /\ ctx_h = 32 /\ filter = <<32, 80>> /\ prediction = 4

(***************************************************************************)
(* Claims about the entropy decoders, checked under SpecCoeffs             *)
(***************************************************************************)
\* the cells of a band of width x height at base, rows stride apart
C3_Rect(base, stride, width, height) ==
    { base + (r * stride) + c : r \in 0 .. (height - 1), c \in 0 .. (width - 1) }

C3_Counts ==
    ent.fn # "none" =>
        /\ Len(ent.out) = ent.i
        /\ ent.i <= ent.size
        /\ (ent.pc = "done" => Len(ent.out) = ent.size)
        /\ (ent.fn = "low" /\ ent.pc = "done" =>
               /\ ent.emitted = ent.dcw * ent.dch
               /\ ent.cells = C3_Rect(0, ent.lstride, ent.dcw, ent.dch))
        /\ (ent.fn = "high" /\ ent.pc = "done" =>
               /\ ent.emitted = ent.size
               /\ ent.cells = C3_Rect(ent.base, ent.stride, ent.width,
                                      ent.size \div ent.width))

\* C3: a call of read_low_coeffs or read_high_coeffs never has written more
\* than size samples and has written exactly size of them when it returns
\* success; the iteration whose run does not fit writes its value sample and
\* no sample of the run before the call fails; so the DC seed and the three
\* low passes write exactly the dcw * dch cells of the lowpass band, and an AC
\* band exactly its band.size cells.
C3_ExactCount ==
    /\ []C3_Counts
    /\ [][ ent.fn # "none" /\ ent.pc = "loop" /\ ent'.pc = "error" =>
              /\ Len(ent'.out) = Len(ent.out) + 1
              /\ ent'.emitted = ent.emitted + 1
              /\ ent'.ret = AVERROR_INVALIDDATA ]_vars

C3_Witness ==
    /\ ent.fn = "low" /\ ent.pc = "done"
    /\ ent.dcw = 4 /\ ent.dch = 2
    /\ ent.flag = 1 /\ ent.emitted = 8

\* the call of read_high_coeffs for a band whose header has a = 0 and b = 0
C8_Band ==
    /\ ent.fn = "high" /\ ent.pc # "header"
    /\ MagicOk(ent.hdr.magic)
    /\ ent.hdr.a = 0 /\ ent.hdr.b = 0

\* C8 as amended: for a band with a = 0 and b = 0, nbits = 1 and length = 24;
\* on a payload of zero bits only, with 0 <= d <= 256, the call succeeds, the
\* first sample is 0 and every later sample is 0 or -(c + (c >> 1)), the
\* second one being -(c + (c >> 1)): the output is all zeros when c = 0 or
\* size = 1.
C8_ZeroBoundary ==
    C8_Band =>
        /\ ent.nbits = 1 /\ ent.length = 24
        /\ (ent.zeros /\ 0 <= ent.d /\ ent.d <= 256 =>
               /\ ~ent.ub /\ ent.pc # "error"
               /\ \A k \in 1 .. Len(ent.out) :
                     /\ ent.out[k] \in {0, ToI16(-(ent.c + Shr(ent.c, 1)))}
                     /\ (k = 1 => ent.out[k] = 0)
                     /\ (k = 2 =>
                            ent.out[k] = ToI16(-(ent.c + Shr(ent.c, 1)))))

C8_Witness ==
    /\ C8_Band /\ ent.pc = "done" /\ ent.zeros
    /\ ent.c = 3 /\ ent.d = 1
    /\ ent.out = <<0, -4, -4, -4>>

\* C8 as stated: with a = 0 and b = 0, nbits = 1, length = 24 and a payload of
\* zero bits only decodes to size samples that are all zero.
C8_Original ==
    (C8_Band /\ ent.zeros /\ ~ent.ub /\ ent.pc = "done") =>
        /\ ent.nbits = 1 /\ ent.length = 24
        /\ Len(ent.out) = ent.size
        /\ \A k \in 1 .. Len(ent.out) : ent.out[k] = 0

(***************************************************************************)
(* Claims about the band header, checked under SpecHdr                     *)
(***************************************************************************)
C10_Started == ent.fn = "high" /\ ent.pc # "header" /\ MagicOk(ent.hdr.magic)
C10_Abs(a) == IF a < 0 THEN -a ELSE a
C10_Plain(a) == INT32_MIN < a /\ a < INT32_MAX
\* the leading zero bits of x as a 32-bit value, 0 < x < 2^31
C10_Clz32(x) ==
    CHOOSE n \in 1 .. 31 : Pow2(31 - n) <= x /\ (n = 1 \/ x < Pow2(32 - n))

\* C10 as amended: read_high_coeffs gets b when b >= |a| and a otherwise (for
\* a = INT32_MIN either, by the build); for its parameter a, other than
\* INT32_MIN and INT32_MAX, the expression is a + 1 for a >= 0 and |a| for
\* a < 0; nbits = 1 exactly when a is 0 or -1, otherwise nbits is
\* 33 - clz32(expression - 1), and the band is rejected exactly when
\* a >= 32768 or a <= -32769; an accepted band has length = 25 - nbits.
C10_HeaderParam ==
    C10_Started =>
        LET a == ent.a
            e == IF a >= 0 THEN a + 1 ELSE -a
        IN /\ (ent.hdr.a # INT32_MIN =>
                  a = IF ent.hdr.b >= C10_Abs(ent.hdr.a) THEN ent.hdr.b ELSE ent.hdr.a)
           /\ (ent.hdr.a = INT32_MIN => a \in {ent.hdr.a, ent.hdr.b})
           /\ (C10_Plain(a) => AbsExpr(a) = e)
           /\ (ent.nbits = 1 <=> a \in {0, -1})
           /\ (C10_Plain(a) /\ a \notin {0, -1} =>
                  ent.nbits = 33 - C10_Clz32(e - 1))
           /\ (C10_Plain(a) =>
                  (ent.pc = "error" <=> (a >= 32768 \/ a <= -32769)))
           /\ (ent.pc = "error" => ent.ret = AVERROR_INVALIDDATA)
           /\ (ent.pc = "loop" => ent.length = 25 - ent.nbits)

C10_Witness ==
    /\ C10_Started /\ ent.pc = "loop"
    /\ ent.hdr.a = -32768 /\ ent.a = -32768
    /\ ent.nbits = 16 /\ ent.length = 9

\* C10 as stated: the expression is |a|, nbits = 1 exactly when |a| = 1,
\* the band is rejected exactly when 33 - clz32(|a| - 1) exceeds 16, and a
\* header with a = INT32_MIN is rejected.
C10_Original ==
    C10_Started =>
        /\ (ent.hdr.a = INT32_MIN => ent.pc = "error")
        /\ (C10_Plain(ent.a) => AbsExpr(ent.a) = C10_Abs(ent.a))
        /\ (ent.a # INT32_MIN => (ent.nbits = 1 <=> C10_Abs(ent.a) = 1))
        /\ (C10_Plain(ent.a) /\ C10_Abs(ent.a) > 1 =>
               (ent.pc = "error" <=> 33 - C10_Clz32(C10_Abs(ent.a) - 1) > 16))

(***************************************************************************)
(* Claims about lowpass_prediction, checked under SpecPred                  *)
(***************************************************************************)
RECURSIVE C9_RowSum(_, _, _)
C9_RowSum(r, base, j) ==
    IF j < 0 THEN 0 ELSE r[base + j] + C9_RowSum(r, base, j - 1)
\* the sum of r over the rows up to i and the columns up to j
RECURSIVE C9_Sum(_, _, _, _)
C9_Sum(r, stride, i, j) ==
    IF i < 0 THEN 0 ELSE C9_RowSum(r, i * stride, j) + C9_Sum(r, stride, i - 1, j)
C9_At(d, stride, i, j) == IF i < 0 \/ j < 0 THEN 0 ELSE d[(i * stride) + j]

\* C9: every row lowpass_prediction has done holds the 2-D prefix sum of the
\* residuals modulo 2^16 as int16, pred holds the column sums, the cells
\* outside the band and the rows not done yet are as they were, and the
\* forward differences of the output along rows and columns give back the
\* residuals.
C9_PrefixSum ==
    (lp.fn = "pred" /\ lp.pc # "start") =>
        /\ \A i \in 0 .. (lp.i - 1), j \in 0 .. (lp.width - 1) :
              /\ lp.dst[(i * lp.stride) + j] = ToI16(C9_Sum(lp.r, lp.stride, i, j))
              /\ ToI16(C9_At(lp.dst, lp.stride, i, j)
                       - C9_At(lp.dst, lp.stride, i - 1, j)
                       - C9_At(lp.dst, lp.stride, i, j - 1)
                       + C9_At(lp.dst, lp.stride, i - 1, j - 1))
                     = lp.r[(i * lp.stride) + j]
        /\ \A k \in DOMAIN lp.dst :
              (k \div lp.stride >= lp.i \/ k % lp.stride >= lp.width) =>
                  lp.dst[k] = lp.r[k]
        /\ (lp.pc = "done" <=> lp.i = lp.height)

C9_Witness ==
    /\ lp.fn = "pred" /\ lp.pc = "done"
    /\ lp.width = 3 /\ lp.height = 2
    /\ lp.r[0] = INT16_MAX /\ lp.r[6] = INT16_MAX
    /\ lp.dst[6] = -6

(***************************************************************************)
(* Claims about the postprocess, checked under SpecPost                     *)
(***************************************************************************)
\* C6: for every depth in [8, 15] and int16 samples s1 < s2, what
\* postprocess_chroma stores for s1 is at most what it stores for s2.
C6_ChromaMonotone ==
    (pp.fn = "post" /\ pp.pc = "done" /\ pp.srcu[1] < pp.srcu[2]) =>
        pp.dstu[1] <= pp.dstu[2]

\* C7: for every int16 sample and every depth in [8, 15], the value
\* postprocess_luma computes is in [0, 65535] before it is stored as uint16.
C7_LumaInRange ==
    (pp.fn = "post" /\ pp.pc # "luma") => (0 <= pp.luma /\ pp.luma <= 65535)

(***************************************************************************)
(* Claims about the adaptive state, checked under SpecCoeffs               *)
(***************************************************************************)
\* C11: in read_low_coeffs and read_high_coeffs the state is never negative,
\* the run phase is only entered with a state in [0, 63], and the width of
\* the run prefix, ((state + 8) >> 5) + clz32(state) - 24, is in [3, 8].
C11_StateValid ==
    ent.fn # "none" =>
        /\ ent.state >= 0
        /\ ent.rstate >= 0 /\ ent.rstate <= 63
        /\ RunPrefixBits(ent.rstate) >= 3 /\ RunPrefixBits(ent.rstate) <= 8

\* the part of it about read_low_coeffs
C11_LowStateValid == ent.fn = "low" => C11_StateValid

=============================================================================
